---- MODULE Spec2Model ----
(***************************************************************************)
(* Model of aibench/python/sh_commands.py: the device-lock guarded         *)
(* execution loop adb_run, the locked probe of bazel_build, and the        *)
(* file lock returned by device_lock.  Every pipeline is one process       *)
(* that calls adb_run (a runner) or bazel_build (a builder) once.          *)
(***************************************************************************)
EXTENDS Integers, Sequences, FiniteSets, TLC

\* ---------------------------------------------------------------- bounds
NumRunners == 2      \* concurrent adb_run callers
NumBuilders == 1     \* concurrent bazel_build callers
NumSerials == 2      \* devices
MaxJobs == 2         \* longest benchmark_list
MaxBudget == 1       \* largest max_time_per_lock (minutes)
MaxElapse == 1       \* elapsed minutes are measured up to here ("or more")
WaitChunk == 2000    \* seconds between two observed polls of a held lock
MaxHolds == 2        \* the count of lock holds saturates here

\* ------------------------------------------------------ program constants
DefaultTimeout == 3600

Runners == 1..NumRunners
Builders == (NumRunners + 1)..(NumRunners + NumBuilders)
Procs == Runners \cup Builders
Serials == 1..NumSerials
NoProc == 0

Abis == {"armeabi-v7a", "arm64-v8a"}

VARIABLES
    serialno,           \* argument serialno of each call
    abi,                \* argument abi of each call
    dsp_requested,      \* builders: base_pb2.DSP in device_types
    benchmark_list,     \* runners: argument benchmark_list
    max_time_per_lock,  \* runners: argument max_time_per_lock
    pc,                 \* position of each process in its function
    i,                  \* runners: local i of adb_run
    elapse_minutes,     \* runners: local elapse_minutes
    props,              \* runners: local props (product_model, target_soc)
    lock,               \* holder of each lock file, or NoProc
    waited,             \* seconds spent so far in FileLock.acquire
    error,              \* exception that left the function, or "none"
    result,             \* runners: value returned by adb_run, or "none"
    dsp_defined,        \* builders: --define dsp=true was added
    failure,            \* what failed last in the process, or "none"
    invoked,            \* runners: jobs invoked on the device, in order
    cmd,                \* last device command issued by the process
    cmd_locked,         \* whether the process held the lock when issuing cmd
    locks_taken,        \* number of lock holds so far (saturating)
    jobs_in_hold        \* runners: jobs invoked in the current/last hold

\* State of the functions that are checked on their own, outside a pipeline.
VARIABLES
    freq_list,          \* get_cpu_mask: local freq_list, as read from the device
    cpu_mask            \* get_cpu_mask: returned string, as its characters

VARIABLES
    src_is_file,        \* adb_push_file: os.path.isfile(src_file)
    src_checksum,       \* adb_push_file: file_checksum(src_file)
    dst_checksum,       \* adb_push_file: content of dst_file, 0 when absent
    push_log            \* adb_push_file: what each call so far did

VARIABLES
    is_http,            \* get_model_file: file_path.startswith("http")
    local_sum,          \* checksum of the local file, 0 when it is absent
    expected_sum,       \* the checksum argument / configs entry
    push_list,          \* push_list of get_model_file and prepare_all_models
    returned,           \* download_file: the returned file_path, or "none"
    fetch_error         \* what ended the fetch instead, or "none"

VARIABLES
    catalog,            \* bench_factory.benchmarks
    executors,          \* prepare_all_models: requested executors
    model_names,        \* requested model names
    device_types,       \* requested device types
    local_files,        \* model files present in output_dir, intact
    downloads,          \* the urlretrieve calls made, in order
    model_infos,        \* the jobs prepare_all_models returns
    prepared            \* prepare_all_models has returned

cpuvars == <<freq_list, cpu_mask>>

preparevars == <<catalog, executors, model_names, device_types, local_files,
                 downloads, model_infos, prepared>>

fetchvars == <<is_http, local_sum, expected_sum, push_list, returned,
               fetch_error>>

pushvars == <<src_is_file, src_checksum, dst_checksum, push_log>>

fnvars == <<cpuvars, pushvars, fetchvars, preparevars>>

pipevars == <<serialno, abi, dsp_requested, benchmark_list, max_time_per_lock,
              pc, i, elapse_minutes, props, lock, waited, error, result,
              dsp_defined, failure, invoked, cmd, cmd_locked, locks_taken,
              jobs_in_hold>>

vars == <<pipevars, fnvars>>

\* What no step of a pipeline changes: its arguments, and the functions
\* checked on their own.
args == <<serialno, abi, dsp_requested, benchmark_list, max_time_per_lock,
          fnvars>>

\* get_cpu_mask has not been called.
CpuIdle == freq_list = <<>> /\ cpu_mask = <<>>

\* adb_push_file has not been called.
PushIdle ==
    /\ src_is_file = FALSE /\ src_checksum = 0 /\ dst_checksum = 0
    /\ push_log = <<>>

\* Neither get_model_file nor download_file has been called.
FetchIdle ==
    /\ is_http = FALSE /\ local_sum = 0 /\ expected_sum = 0
    /\ push_list = <<>> /\ returned = "none" /\ fetch_error = "none"

\* prepare_all_models has not been called.
PrepareIdle ==
    /\ catalog = <<>> /\ executors = {} /\ model_names = {}
    /\ device_types = {} /\ local_files = {} /\ downloads = <<>>
    /\ model_infos = <<>> /\ prepared = FALSE

\* None of the functions checked on their own has been called.
FnIdle == CpuIdle /\ PushIdle /\ FetchIdle /\ PrepareIdle

Min(a, b) == IF a < b THEN a ELSE b

Range(f) == {f[x] : x \in DOMAIN f}

\* The job list of length n: the jobs are named by their catalog position.
JobList(n) == [k \in 1..n |-> k]

\* ro.product.model and ro.board.platform of a device.
ProductModel(s) == "model" \o ToString(s)
TargetSoc(s) == "soc" \o ToString(s)

\* adb_getprop_by_serialno as far as adb_run reads it.
adb_getprop_by_serialno(s) ==
    [product_model |-> ProductModel(s), target_soc |-> TargetSoc(s)]

NoProps == [product_model |-> "", target_soc |-> ""]

\* dest_path of adb_run, relative to output_dir.
DestPath(p) ==
    props[p].product_model \o "_" \o props[p].target_soc \o "_"
        \o abi[p] \o "_" \o "result.txt"

\* Variant of device_lock_path: one lock file for all devices.
device_lock_path_Shared(serial) == "/tmp/device-lock"

\* device_lock_path line 55-56: the lock file of a serial.
device_lock_path(serial) == "/tmp/device-lock-" \o ToString(serial)

\* The lock files of the devices.
LockPaths == {device_lock_path(s) : s \in Serials}

Holds(p) == lock[device_lock_path(serialno[p])] = p

\* The first pipeline's device is called serial 1; runners are given one abi.
Init ==
    /\ serialno \in [Procs -> Serials]
    /\ serialno[1] = 1
    /\ abi \in [Procs -> Abis]
    /\ \A p \in Runners : abi[p] = "arm64-v8a"
    /\ dsp_requested \in [Builders -> BOOLEAN]
    /\ benchmark_list \in [Runners -> {JobList(n) : n \in 0..MaxJobs}]
    /\ max_time_per_lock \in [Runners -> 0..MaxBudget]
    /\ pc = [p \in Procs |-> IF p \in Runners THEN "rm_result" ELSE "b_check"]
    /\ i = [p \in Runners |-> 0]
    /\ elapse_minutes = [p \in Runners |-> 0]
    /\ props = [p \in Runners |-> NoProps]
    /\ lock = [f \in LockPaths |-> NoProc]
    /\ waited = [p \in Procs |-> 0]
    /\ error = [p \in Procs |-> "none"]
    /\ result = [p \in Runners |-> "none"]
    /\ dsp_defined = [p \in Builders |-> FALSE]
    /\ failure = [p \in Procs |-> "none"]
    /\ invoked = [p \in Runners |-> <<>>]
    /\ cmd = [p \in Procs |-> "none"]
    /\ cmd_locked = [p \in Procs |-> FALSE]
    /\ locks_taken = [p \in Procs |-> 0]
    /\ jobs_in_hold = [p \in Runners |-> 0]
    /\ FnIdle

\* A device command issued by p: remembered with the lock state at that time.
Issue(p, name) ==
    /\ cmd' = [cmd EXCEPT ![p] = name]
    /\ cmd_locked' = [cmd_locked EXCEPT ![p] = Holds(p)]

\* The command or acquisition of p has failed.
Fails(p, what) == failure' = [failure EXCEPT ![p] = what]

\* An exception leaves the function of p.
Raise(p, e) ==
    /\ pc' = [pc EXCEPT ![p] = "raised"]
    /\ error' = [error EXCEPT ![p] = e]

\* Variant of Release: the lock file stays held when the block is left.
Release_Keeps(p) == UNCHANGED lock

\* FileLock.__exit__: the with block of p is left.
Release(p) ==
    lock' = [lock EXCEPT ![device_lock_path(serialno[p])] = NoProc]

\* Variant of LoopCond: the loop body runs once before the first test.
LoopCond_DoWhile(p) == i[p] < Len(benchmark_list[p]) \/ locks_taken[p] = 0

\* adb_run line 445: the condition of the outer while loop.
LoopCond(p) == i[p] < Len(benchmark_list[p])

\* adb_run line 445: where the test of the outer loop leads.
LoopTarget(p) == IF LoopCond(p) THEN "lock" ELSE "pull"

\* adb_run line 438-439: remove the remote result file.
RmResult(p) ==
    /\ p \in Runners /\ pc[p] = "rm_result"
    /\ Issue(p, "rm_result")
    /\ \/ /\ pc' = [pc EXCEPT ![p] = "getprop"]
          /\ UNCHANGED <<error, failure>>
       \/ /\ Fails(p, "rm_result")
          /\ Raise(p, "ErrorReturnCode")
    /\ UNCHANGED <<args, i, elapse_minutes, props, lock, waited, result,
                   dsp_defined, invoked, locks_taken, jobs_in_hold>>

\* adb_run line 440-445: read the device properties, enter the outer loop.
GetProp(p) ==
    /\ p \in Runners /\ pc[p] = "getprop"
    /\ Issue(p, "getprop")
    /\ \/ /\ pc' = [pc EXCEPT ![p] = LoopTarget(p)]
          /\ props' = [props EXCEPT ![p] = adb_getprop_by_serialno(serialno[p])]
          /\ UNCHANGED <<error, failure>>
       \/ /\ Fails(p, "getprop")
          /\ Raise(p, "ErrorReturnCode")
          /\ UNCHANGED props
    /\ UNCHANGED <<args, i, elapse_minutes, lock, waited, result,
                   dsp_defined, invoked, locks_taken, jobs_in_hold>>

\* Variant of LockFree: the lock file is never seen as held.
LockFree_Always(s) == TRUE

\* FileLock of device_lock(serialno): the lock file is not held.
LockFree(s) == lock[device_lock_path(s)] = NoProc

\* device_lock line 59: the timeout adb_run and bazel_build get by default.
LockTimeoutOf(p) == DefaultTimeout

\* FileLock.acquire gives up once the wait has exceeded the timeout.
TimedOut(w, timeout) == w > timeout

\* with device_lock(serialno), line 450-451 and line 204: the lock is obtained.
Acquire(p) ==
    /\ pc[p] = "lock"
    /\ LockFree(serialno[p])
    /\ lock' = [lock EXCEPT ![device_lock_path(serialno[p])] = p]
    /\ locks_taken' = [locks_taken EXCEPT ![p] = Min(@ + 1, MaxHolds)]
    /\ waited' = [waited EXCEPT ![p] = 0]
    /\ IF p \in Runners
       THEN /\ pc' = [pc EXCEPT ![p] = "setup"]
            /\ jobs_in_hold' = [jobs_in_hold EXCEPT ![p] = 0]
       ELSE /\ pc' = [pc EXCEPT ![p] = "b_ls"]
            /\ UNCHANGED jobs_in_hold
    /\ UNCHANGED <<args, i, elapse_minutes, props, error, result,
                   dsp_defined, failure, invoked, cmd, cmd_locked>>

\* FileLock.acquire: the lock is held by someone else, keep waiting.
PollHeld(p) ==
    /\ pc[p] = "lock"
    /\ ~LockFree(serialno[p])
    /\ ~TimedOut(waited[p], LockTimeoutOf(p))
    /\ waited' = [waited EXCEPT ![p] = @ + WaitChunk]
    /\ UNCHANGED <<args, pc, i, elapse_minutes, props, lock, error, result,
                   dsp_defined, failure, invoked, cmd, cmd_locked,
                   locks_taken, jobs_in_hold>>

\* Variant of OnLockTimeout: the timeout is caught and the wait starts again.
OnLockTimeout_Retries(p) ==
    /\ waited' = [waited EXCEPT ![p] = 0]
    /\ UNCHANGED <<pc, error>>

\* What the callers do with filelock.Timeout: nothing catches it.
OnLockTimeout(p) == Raise(p, "Timeout") /\ UNCHANGED waited

\* FileLock.acquire: the wait exceeded the timeout, filelock.Timeout.
LockTimeout(p) ==
    /\ pc[p] = "lock"
    /\ ~LockFree(serialno[p])
    /\ TimedOut(waited[p], LockTimeoutOf(p))
    /\ Fails(p, "lock")
    /\ OnLockTimeout(p)
    /\ UNCHANGED <<args, i, elapse_minutes, props, lock, result,
                   dsp_defined, invoked, cmd, cmd_locked, locks_taken,
                   jobs_in_hold>>

\* adb_run line 452-484: power configuration (a failure is printed and
\* ignored), scratch directory, staging, binary push, cpu mask.  Either all
\* commands after tools/power.sh succeed or one raises inside the with block.
Setup(p) ==
    /\ p \in Runners /\ pc[p] = "setup"
    /\ Issue(p, "setup")
    /\ \/ /\ elapse_minutes' = [elapse_minutes EXCEPT ![p] = 0]
          /\ pc' = [pc EXCEPT ![p] = "batch"]
          /\ UNCHANGED <<lock, error, failure>>
       \/ /\ Fails(p, "setup")
          /\ Release(p)
          /\ Raise(p, "ErrorReturnCode")
          /\ UNCHANGED elapse_minutes
    /\ UNCHANGED <<args, i, props, waited, result, dsp_defined, invoked,
                   locks_taken, jobs_in_hold>>

\* Variant of BatchContinues: a hold runs one job only.
BatchContinues_OnePerHold(p) ==
    /\ jobs_in_hold[p] = 0
    /\ i[p] < Len(benchmark_list[p])

\* Variant of BatchContinues: the budget is not looked at.
BatchContinues_IgnoresBudget(p) == i[p] < Len(benchmark_list[p])

\* Variant of BatchContinues: the comparison with the budget is inverted.
BatchContinues_Inverted(p) ==
    /\ elapse_minutes[p] > max_time_per_lock[p]
    /\ i[p] < Len(benchmark_list[p])

\* adb_run line 485-486: the condition of the inner while loop.
BatchContinues(p) ==
    /\ elapse_minutes[p] < max_time_per_lock[p]
    /\ i[p] < Len(benchmark_list[p])

\* Variant of NextIndex: the index advances by two.
NextIndex_Skips(k) == k + 2

\* adb_run line 487-488: item = benchmark_list[i]; i += 1 (0-based i).
NextItem(p) == benchmark_list[p][i[p] + 1]
NextIndex(k) == k + 1

\* Variant of OnJobFailure: the failure is swallowed and the batch goes on.
OnJobFailure_Swallowed(p) == UNCHANGED <<pc, lock, error, elapse_minutes>>

\* What a failed job invocation does: the exception leaves the with block.
OnJobFailure(p) ==
    /\ Release(p)
    /\ Raise(p, "ErrorReturnCode")
    /\ UNCHANGED elapse_minutes

\* adb_run line 511: (time.time() - start_time) / 60 after a job.  Time does
\* not run backwards, so the value is at least the one measured before.
Measured(p) == elapse_minutes[p]..MaxElapse

\* adb_run line 487-511: one iteration of the inner loop.
RunJob(p) ==
    /\ p \in Runners /\ pc[p] = "batch"
    /\ BatchContinues(p)
    /\ i' = [i EXCEPT ![p] = NextIndex(@)]
    /\ invoked' = [invoked EXCEPT ![p] = Append(@, NextItem(p))]
    /\ jobs_in_hold' = [jobs_in_hold EXCEPT ![p] = @ + 1]
    /\ Issue(p, "model_benchmark")
    /\ \/ /\ \E e \in Measured(p) :
                elapse_minutes' = [elapse_minutes EXCEPT ![p] = e]
          /\ UNCHANGED <<pc, lock, error, failure>>
       \/ /\ Fails(p, "job")
          /\ OnJobFailure(p)
    /\ UNCHANGED <<args, props, waited, result, dsp_defined, locks_taken>>

\* Variant of EndBatch: time.sleep is indented into the with block.
EndBatch_SleepsInside(p) ==
    /\ p \in Runners /\ pc[p] = "batch"
    /\ ~BatchContinues(p)
    /\ pc' = [pc EXCEPT ![p] = "sleep"]
    /\ UNCHANGED <<args, i, elapse_minutes, props, lock, waited, error,
                   result, dsp_defined, failure, invoked, cmd, cmd_locked,
                   locks_taken, jobs_in_hold>>

\* adb_run line 485, 512: the inner loop ends, the with block is left.
EndBatch(p) ==
    /\ p \in Runners /\ pc[p] = "batch"
    /\ ~BatchContinues(p)
    /\ Release(p)
    /\ pc' = [pc EXCEPT ![p] = "sleep"]
    /\ UNCHANGED <<args, i, elapse_minutes, props, waited, error, result,
                   dsp_defined, failure, invoked, cmd, cmd_locked,
                   locks_taken, jobs_in_hold>>

\* adb_run line 514, 445: time.sleep(run_interval), then the loop test.
Sleep(p) ==
    /\ p \in Runners /\ pc[p] = "sleep"
    /\ pc' = [pc EXCEPT ![p] = LoopTarget(p)]
    /\ UNCHANGED <<args, i, elapse_minutes, props, lock, waited, error,
                   result, dsp_defined, failure, invoked, cmd, cmd_locked,
                   locks_taken, jobs_in_hold>>

\* Variant of adb_pull_except: the except clause raises again.
adb_pull_except_Reraises(p) == error' = [error EXCEPT ![p] = "ErrorReturnCode"]

\* adb_pull line 135-136: the except clause prints the error and goes on.
adb_pull_except(p) == UNCHANGED error

\* adb_run line 516-521: pull the result file and return dest_path.
Finalize(p) ==
    /\ p \in Runners /\ pc[p] = "pull"
    /\ Issue(p, "pull")
    /\ \/ UNCHANGED <<error, failure>>
       \/ /\ Fails(p, "pull")
          /\ adb_pull_except(p)
    /\ IF error'[p] = "none"
       THEN /\ pc' = [pc EXCEPT ![p] = "done"]
            /\ result' = [result EXCEPT ![p] = DestPath(p)]
       ELSE /\ pc' = [pc EXCEPT ![p] = "raised"]
            /\ UNCHANGED result
    /\ UNCHANGED <<args, i, elapse_minutes, props, lock, waited,
                   dsp_defined, invoked, locks_taken, jobs_in_hold>>

\* bazel_build line 203: the DSP probe is needed.
NeedsProbe(p) == dsp_requested[p] /\ abi[p] = "armeabi-v7a"

\* bazel_build line 203: decide whether to probe the device under the lock.
BCheck(p) ==
    /\ p \in Builders /\ pc[p] = "b_check"
    /\ pc' = [pc EXCEPT ![p] = IF NeedsProbe(p) THEN "lock" ELSE "bazel"]
    /\ UNCHANGED <<args, i, elapse_minutes, props, lock, waited, error,
                   result, dsp_defined, failure, invoked, cmd, cmd_locked,
                   locks_taken, jobs_in_hold>>

\* bazel_build line 205-215: ls /system/lib/libcdsprpc.so inside the with
\* block.  Exit status 1 is caught; any other failure leaves the block.
BProbe(p) ==
    /\ p \in Builders /\ pc[p] = "b_ls"
    /\ Issue(p, "ls_libcdsprpc")
    /\ Release(p)
    /\ \/ /\ \E found \in BOOLEAN :
                dsp_defined' = [dsp_defined EXCEPT ![p] = found]
          /\ pc' = [pc EXCEPT ![p] = "bazel"]
          /\ UNCHANGED <<error, failure>>
       \/ /\ Fails(p, "ls_libcdsprpc")
          /\ Raise(p, "ErrorReturnCode")
          /\ UNCHANGED dsp_defined
    /\ UNCHANGED <<args, i, elapse_minutes, props, waited, result, invoked,
                   locks_taken, jobs_in_hold>>

\* bazel_build line 216-219: the build itself.
Bazel(p) ==
    /\ p \in Builders /\ pc[p] = "bazel"
    /\ \/ /\ pc' = [pc EXCEPT ![p] = "done"]
          /\ UNCHANGED <<error, failure>>
       \/ /\ Fails(p, "bazel")
          /\ Raise(p, "ErrorReturnCode")
    /\ UNCHANGED <<args, i, elapse_minutes, props, lock, waited, result,
                   dsp_defined, invoked, cmd, cmd_locked, locks_taken,
                   jobs_in_hold>>

\* The positions inside a with device_lock(serialno) block.
InCS == {"setup", "batch", "b_ls"}

Step(p) ==
    \/ RmResult(p)
    \/ GetProp(p)
    \/ Acquire(p)
    \/ PollHeld(p)
    \/ LockTimeout(p)
    \/ Setup(p)
    \/ RunJob(p)
    \/ EndBatch(p)
    \/ Sleep(p)
    \/ Finalize(p)
    \/ BCheck(p)
    \/ BProbe(p)
    \/ Bazel(p)

Next == \E p \in Procs : Step(p)

Spec == Init /\ [][Next]_vars

\* All pipelines target the same device.
ContendedInit == Init /\ \A p \in Procs : serialno[p] = 1

\* Every pipeline is an operating-system process that keeps running.
FairSpec ==
    ContendedInit /\ [][Next]_vars /\ \A p \in Procs : WF_vars(Step(p))

\* ------------------------------------------- one pipeline, end to end
EndToEndJobs == 5    \* longest benchmark_list of the end-to-end runs

\* One adb_run call on a device nobody else uses; the other pipelines have
\* ended.  The budget ranges up to more than any elapsed time measured.
SoloInit ==
    /\ serialno = [p \in Procs |-> 1]
    /\ abi = [p \in Procs |-> "arm64-v8a"]
    /\ dsp_requested = [p \in Builders |-> FALSE]
    /\ benchmark_list \in [Runners -> {JobList(n) : n \in 0..EndToEndJobs}]
    /\ max_time_per_lock \in [Runners -> 0..(MaxElapse + 1)]
    /\ \A p \in Runners \ {1} :
          benchmark_list[p] = <<>> /\ max_time_per_lock[p] = 0
    /\ pc = [p \in Procs |-> IF p = 1 THEN "rm_result" ELSE "done"]
    /\ i = [p \in Runners |-> 0]
    /\ elapse_minutes = [p \in Runners |-> 0]
    /\ props = [p \in Runners |-> NoProps]
    /\ lock = [f \in LockPaths |-> NoProc]
    /\ waited = [p \in Procs |-> 0]
    /\ error = [p \in Procs |-> "none"]
    /\ result = [p \in Runners |-> "none"]
    /\ dsp_defined = [p \in Builders |-> FALSE]
    /\ failure = [p \in Procs |-> "none"]
    /\ invoked = [p \in Runners |-> <<>>]
    /\ cmd = [p \in Procs |-> "none"]
    /\ cmd_locked = [p \in Procs |-> FALSE]
    /\ locks_taken = [p \in Procs |-> 0]
    /\ jobs_in_hold = [p \in Runners |-> 0]
    /\ FnIdle

SoloNext ==
    \/ RmResult(1)
    \/ GetProp(1)
    \/ Acquire(1)
    \/ Setup(1)
    \/ RunJob(1)
    \/ EndBatch(1)
    \/ Sleep(1)
    \/ Finalize(1)

SoloSpec == SoloInit /\ [][SoloNext]_vars

\* ------------------------------------------------ functions on their own
\* No pipeline is running: the state the pipeline variables have while a
\* function is checked on its own.
PipelinesIdle ==
    /\ serialno = [p \in Procs |-> 1]
    /\ abi = [p \in Procs |-> "arm64-v8a"]
    /\ dsp_requested = [p \in Builders |-> FALSE]
    /\ benchmark_list = [p \in Runners |-> <<>>]
    /\ max_time_per_lock = [p \in Runners |-> 0]
    /\ pc = [p \in Procs |-> "done"]
    /\ i = [p \in Runners |-> 0]
    /\ elapse_minutes = [p \in Runners |-> 0]
    /\ props = [p \in Runners |-> NoProps]
    /\ lock = [f \in LockPaths |-> NoProc]
    /\ waited = [p \in Procs |-> 0]
    /\ error = [p \in Procs |-> "none"]
    /\ result = [p \in Runners |-> "none"]
    /\ dsp_defined = [p \in Builders |-> FALSE]
    /\ failure = [p \in Procs |-> "none"]
    /\ invoked = [p \in Runners |-> <<>>]
    /\ cmd = [p \in Procs |-> "none"]
    /\ cmd_locked = [p \in Procs |-> FALSE]
    /\ locks_taken = [p \in Procs |-> 0]
    /\ jobs_in_hold = [p \in Runners |-> 0]

\* ------------------------------------------------------------ get_cpu_mask
MaxCores == 5        \* most cpus whose cpuinfo_max_freq is read
NumFreqs == 2        \* distinct maximum frequencies

\* The frequencies a core can report: 100, 200, ...
Freqs == {100 * k : k \in 1..NumFreqs}

\* The sequences over S of length 0..n.
SeqsUpTo(S, n) == UNION {[1..k -> S] : k \in 0..n}

\* max(freq_list) of line 419.
RECURSIVE MaxOf(_)
MaxOf(fs) ==
    IF Len(fs) = 1 THEN fs[1]
    ELSE LET m == MaxOf(Tail(fs)) IN IF fs[1] > m THEN fs[1] ELSE m

\* Variant of MaskBits: the bit of each core is appended, not prepended.
RECURSIVE MaskBits_Appends(_, _, _)
MaskBits_Appends(fs, k, mask) ==
    IF k > Len(fs) THEN mask
    ELSE MaskBits_Appends(fs, k + 1,
             mask \o (IF fs[k] = MaxOf(fs) THEN <<"1">> ELSE <<"0">>))

\* get_cpu_mask line 418-419: the loop over freq_list from core k on, each
\* core's character is put in front of cpu_mask.
RECURSIVE MaskBits(_, _, _)
MaskBits(fs, k, mask) ==
    IF k > Len(fs) THEN mask
    ELSE MaskBits(fs, k + 1,
             (IF fs[k] = MaxOf(fs) THEN <<"1">> ELSE <<"0">>) \o mask)

\* int(cpu_mask, 2) of line 420: the characters read as a binary number.
RECURSIVE ParseBinary(_)
ParseBinary(bits) ==
    IF bits = <<>> THEN 0
    ELSE 2 * ParseBinary(SubSeq(bits, 1, Len(bits) - 1))
            + (IF bits[Len(bits)] = "1" THEN 1 ELSE 0)

HexDigits == <<"0", "1", "2", "3", "4", "5", "6", "7", "8", "9",
               "a", "b", "c", "d", "e", "f">>

\* str(hex(n))[2:] of line 420: the hexadecimal digits of n, lower case,
\* without the leading 0x.
RECURSIVE HexOf(_)
HexOf(n) ==
    IF n < 16 THEN <<HexDigits[n + 1]>>
    ELSE HexOf(n \div 16) \o <<HexDigits[(n % 16) + 1]>>

\* get_cpu_mask line 418-420 for a freq_list; int('', 2) raises ValueError.
CpuMaskOf(fs) ==
    IF fs = <<>> THEN <<"ValueError">>
    ELSE HexOf(ParseBinary(MaskBits(fs, 1, <<>>)))

CpuMaskInit ==
    /\ PipelinesIdle
    /\ freq_list \in SeqsUpTo(Freqs, MaxCores)
    /\ cpu_mask = <<>>
    /\ PushIdle
    /\ FetchIdle
    /\ PrepareIdle

\* get_cpu_mask line 404-420, after the frequencies were read.
GetCpuMask ==
    /\ cpu_mask = <<>>
    /\ cpu_mask' = CpuMaskOf(freq_list)
    /\ UNCHANGED <<pipevars, freq_list, pushvars, fetchvars, preparevars>>

CpuMaskNext == GetCpuMask

CpuMaskSpec == CpuMaskInit /\ [][CpuMaskNext]_vars

\* ----------------------------------------------------------- adb_push_file
NumSums == 2         \* distinct file contents (checksums 1..NumSums)
MaxStatus == 2       \* exit statuses of the remote md5sum are 0..MaxStatus
MaxPushCalls == 2    \* consecutive adb_push_file calls, same arguments

Absent == 0
ExitStatuses == 0..MaxStatus
NotRun == MaxStatus + 1

\* adb shell md5sum dst_file: status 0 with the checksum of an existing
\* file, status 1 for a missing file; any higher status when the device or
\* its md5sum fails otherwise.
Md5sumStatuses(dst) ==
    (IF dst = Absent THEN {1} ELSE {0}) \cup {st \in ExitStatuses : st >= 2}

\* Variant of Md5sumCaught: every failure status is caught.
Md5sumCaught_Any(status) == status # 0

\* adb_push_file line 111: except sh.ErrorReturnCode_1.
Md5sumCaught(status) == status = 1

\* Variant of SameChecksum: the checksums never compare equal.
SameChecksum_Never(src, dst) == FALSE

\* adb_push_file line 116: src_checksum == dst_checksum.
SameChecksum(src, dst) == src = dst

\* What a call did: the md5sum status, the checksum it printed, the outcome.
PushEntry(status, seen, outcome) ==
    [status |-> status, seen |-> seen, outcome |-> outcome]

\* adb push src_file dst_dir, line 113 and 120: the file arrives, or the
\* push raises and leaves something else than the source at dst_file.
Transfer(status, seen) ==
    \/ /\ dst_checksum' = src_checksum
       /\ push_log' = Append(push_log, PushEntry(status, seen, "pushed"))
    \/ /\ dst_checksum' \in (0..NumSums) \ {src_checksum}
       /\ push_log' = Append(push_log, PushEntry(status, seen, "push_raised"))

\* adb_push_file line 101-120, one call.
AdbPushFile ==
    /\ Len(push_log) < MaxPushCalls
    /\ IF ~src_is_file
       THEN /\ push_log' = Append(push_log, PushEntry(NotRun, Absent, "not_file"))
            /\ UNCHANGED dst_checksum
       ELSE \E status \in Md5sumStatuses(dst_checksum) :
               IF status = 0
               THEN IF SameChecksum(src_checksum, dst_checksum)
                    THEN /\ push_log' = Append(push_log,
                                PushEntry(status, dst_checksum, "skipped"))
                         /\ UNCHANGED dst_checksum
                    ELSE Transfer(status, dst_checksum)
               ELSE IF Md5sumCaught(status)
                    THEN Transfer(status, Absent)
                    ELSE /\ push_log' = Append(push_log,
                                PushEntry(status, Absent, "md5sum_raised"))
                         /\ UNCHANGED dst_checksum
    /\ UNCHANGED <<pipevars, cpuvars, fetchvars, preparevars, src_is_file,
                   src_checksum>>

PushInit ==
    /\ PipelinesIdle
    /\ CpuIdle
    /\ FetchIdle
    /\ PrepareIdle
    /\ src_is_file \in BOOLEAN
    /\ src_checksum \in 1..NumSums
    /\ dst_checksum \in 0..NumSums
    /\ push_log = <<>>

PushNext == AdbPushFile

PushSpec == PushInit /\ [][PushNext]_vars

\* ------------------------------------------ get_model_file, download_file
NumDigests == 4      \* distinct file contents (checksums 1..NumDigests)

\* get_model_file line 284-285, download_file line 164: the local file is
\* missing or has another checksum, so it is downloaded.
NeedsDownload(local, checksum) == local = Absent \/ local # checksum

\* Variant of ChecksumMatches: the comparison always succeeds.
ChecksumMatches_Always(local, checksum) == TRUE

\* get_model_file line 288, 292, download_file line 167:
\* file_checksum(path) == checksum.
ChecksumMatches(local, checksum) == local = checksum

\* aibench_check(condition, message) of aibench.python.utils.common: raises
\* when the condition is false.
aibench_check(condition) == condition

\* urllib.urlretrieve: whatever arrives replaces the local file, or the
\* retrieval raises IOError.
DownloadFailed == NumDigests + 1
Downloads == 1..NumDigests \cup {DownloadFailed}

\* The outcome of line 284-287 / line 164-166.
AfterDownload(local, checksum) ==
    IF NeedsDownload(local, checksum) THEN Downloads ELSE {local}

\* get_model_file line 280-295, one call.
GetModelFile ==
    /\ push_list = <<>> /\ returned = "none" /\ fetch_error = "none"
    /\ IF is_http
       THEN \E got \in AfterDownload(local_sum, expected_sum) :
               IF got = DownloadFailed
               THEN /\ fetch_error' = "IOError"
                    /\ UNCHANGED <<local_sum, push_list>>
               ELSE /\ local_sum' = got
                    /\ IF aibench_check(ChecksumMatches(got, expected_sum))
                       THEN /\ push_list' =
                                  Append(push_list, "local_file_path")
                            /\ UNCHANGED fetch_error
                       ELSE /\ fetch_error' = "checksum not match"
                            /\ UNCHANGED push_list
       ELSE /\ UNCHANGED local_sum
            /\ IF local_sum = Absent
               THEN fetch_error' = "IOError" /\ UNCHANGED push_list
               ELSE IF aibench_check(ChecksumMatches(local_sum, expected_sum))
                    THEN /\ push_list' = Append(push_list, "local_file_path")
                         /\ UNCHANGED fetch_error
                    ELSE /\ fetch_error' = "checksum not match"
                         /\ UNCHANGED push_list
    /\ UNCHANGED <<pipevars, cpuvars, pushvars, preparevars, is_http,
                   expected_sum, returned>>

\* download_file line 160-170, one call.
DownloadFile ==
    /\ push_list = <<>> /\ returned = "none" /\ fetch_error = "none"
    /\ \E got \in AfterDownload(local_sum, expected_sum) :
          IF got = DownloadFailed
          THEN /\ fetch_error' = "IOError"
               /\ UNCHANGED <<local_sum, returned>>
          ELSE /\ local_sum' = got
               /\ IF ChecksumMatches(got, expected_sum)
                  THEN returned' = "file_path" /\ UNCHANGED fetch_error
                  ELSE fetch_error' = "exit(1)" /\ UNCHANGED returned
    /\ UNCHANGED <<pipevars, cpuvars, pushvars, preparevars, is_http,
                   expected_sum, push_list>>

FetchInit ==
    /\ PipelinesIdle
    /\ CpuIdle
    /\ PushIdle
    /\ PrepareIdle
    /\ is_http \in BOOLEAN
    /\ local_sum \in 0..NumDigests
    /\ expected_sum \in 1..NumDigests
    /\ push_list = <<>>
    /\ returned = "none"
    /\ fetch_error = "none"

FetchNext == GetModelFile \/ DownloadFile

FetchSpec == FetchInit /\ [][FetchNext]_vars

\* ----------------------------------------------------- prepare_all_models
NumBenchmarks == 2   \* benchmarks in the catalog, one per executor
MaxModels == 2       \* models per benchmark
NumArtifacts == 2    \* distinct model files
NumDeviceTypes == 2  \* base_pb2.DeviceType values

Artifacts == 1..NumArtifacts
DeviceTypes == 1..NumDeviceTypes

\* model.devices: the device types a model applies to.
DeviceLists ==
    {d \in SeqsUpTo(DeviceTypes, NumDeviceTypes) :
        /\ d # <<>>
        /\ \A j, k \in 1..Len(d) : j < k => d[j] < d[k]}

\* One entry of benchmark.models; artifact stands for model_path with its
\* weight_path, whose checksum is the artifact's number.
ModelEntries ==
    [model_name : 1..MaxModels, artifact : Artifacts, devices : DeviceLists]

\* benchmark.models: a benchmark lists each model name once, here the j-th
\* name at position j; the same name may appear under several executors.
ModelLists ==
    {m \in SeqsUpTo(ModelEntries, MaxModels) :
        /\ m # <<>>
        /\ \A j \in 1..Len(m) : m[j].model_name = j}

\* get_model_file line 281, 283: output_dir + '/' + filename.
LocalFilePath(a) == "output_dir/model-" \o ToString(a)

\* file_checksum(local_file_path) for an artifact of the catalog.
LocalSumOf(a, files) == IF a \in files THEN a ELSE Absent

\* get_model line 298-304 (through get_model_file line 280-295), on the
\* record of prepare_all_models' push_list and the files of output_dir.
get_model(model, st) ==
    LET a == model.artifact
        fetch == NeedsDownload(LocalSumOf(a, st.local_files), a)
        files == IF fetch THEN st.local_files \cup {a} ELSE st.local_files
    IN  [st EXCEPT
            !.local_files = files,
            !.downloads = IF fetch THEN Append(@, a) ELSE @,
            !.push_list = IF aibench_check(
                                 ChecksumMatches(LocalSumOf(a, files), a))
                          THEN Append(@, LocalFilePath(a)) ELSE @]

\* get_proto line 307-328: the two catalog files lead the push list.
get_proto(push) ==
    push \o <<"output_dir/benchmark.pb", "output_dir/model.pb">>

\* Variant of NotDownloaded: the flag is ignored.
NotDownloaded_Always(downloaded) == TRUE

\* Line 363: if not downloaded.
NotDownloaded(downloaded) == ~downloaded

\* Line 358-366: for device in model.devices, from position k.
RECURSIVE DeviceLoop(_, _, _, _, _)
DeviceLoop(benchmark, model, k, downloaded, st) ==
    IF k > Len(model.devices) THEN st
    ELSE LET device == model.devices[k] IN
         IF device \notin device_types
         THEN DeviceLoop(benchmark, model, k + 1, downloaded, st)
         ELSE LET got == IF NotDownloaded(downloaded)
                         THEN get_model(model, st) ELSE st
                  info == [executor |-> benchmark.executor,
                           model_name |-> model.model_name,
                           device_type |-> device]
              IN  DeviceLoop(benchmark, model, k + 1, TRUE,
                      [got EXCEPT !.model_infos = Append(@, info)])

\* Line 349-366: for model in benchmark.models, from position j; downloaded
\* starts FALSE for every model (line 357).
RECURSIVE ModelLoop(_, _, _)
ModelLoop(benchmark, j, st) ==
    IF j > Len(benchmark.models) THEN st
    ELSE LET model == benchmark.models[j] IN
         IF model.model_name \notin model_names
         THEN ModelLoop(benchmark, j + 1, st)
         ELSE ModelLoop(benchmark, j + 1,
                        DeviceLoop(benchmark, model, 1, FALSE, st))

\* Line 346-366: for benchmark in bench_factory.benchmarks, from position b.
RECURSIVE BenchmarkLoop(_, _)
BenchmarkLoop(b, st) ==
    IF b > Len(catalog) THEN st
    ELSE IF catalog[b].executor \notin executors
         THEN BenchmarkLoop(b + 1, st)
         ELSE BenchmarkLoop(b + 1, ModelLoop(catalog[b], 1, st))

\* prepare_all_models line 331-367, one call.
PrepareAllModels ==
    /\ ~prepared
    /\ LET st == BenchmarkLoop(1,
                    [push_list |-> get_proto(<<>>), model_infos |-> <<>>,
                     local_files |-> local_files, downloads |-> <<>>])
       IN  /\ push_list' = st.push_list
           /\ model_infos' = st.model_infos
           /\ local_files' = st.local_files
           /\ downloads' = st.downloads
    /\ prepared' = TRUE
    /\ UNCHANGED <<pipevars, cpuvars, pushvars, catalog, executors,
                   model_names, device_types, is_http, local_sum,
                   expected_sum, returned, fetch_error>>

PrepareInit ==
    /\ PipelinesIdle
    /\ CpuIdle
    /\ PushIdle
    /\ FetchIdle
    /\ catalog \in [1..NumBenchmarks -> [executor : 1..NumBenchmarks,
                                         models : ModelLists]]
    /\ \A b \in 1..NumBenchmarks : catalog[b].executor = b
    /\ executors \in SUBSET (1..NumBenchmarks) \ {{}}
    /\ model_names \in SUBSET (1..MaxModels) \ {{}}
    /\ device_types \in SUBSET DeviceTypes
    /\ local_files \in SUBSET Artifacts
    /\ downloads = <<>>
    /\ model_infos = <<>>
    /\ prepared = FALSE

PrepareNext == PrepareAllModels

PrepareSpec == PrepareInit /\ [][PrepareNext]_vars

\* ------------------------------------------------------------------ claims

\* C1: for every serial, at most one pipeline (adb_run or bazel_build caller)
\* is inside the with device_lock(serial) block at any time; an acquisition
\* attempt never succeeds while another pipeline holds the lock.
C1_MutualExclusion ==
    \A p, q \in Procs :
        (p # q /\ serialno[p] = serialno[q]) =>
            ~(pc[p] \in InCS /\ pc[q] \in InCS)

\* C1 witness: one pipeline is in the block while another has been waiting.
C1_Witness ==
    \E p, q \in Procs :
        /\ p # q /\ serialno[p] = serialno[q]
        /\ pc[p] \in InCS /\ pc[q] = "lock" /\ waited[q] > 0

\* C2: every lock hold of adb_run that ends normally has run at least one
\* job, for every max_time_per_lock including 0.
C2_AtLeastOneJob ==
    \A p \in Runners : pc[p] = "sleep" => jobs_in_hold[p] >= 1

\* C3 as stated: with an empty job list adb_run has taken the lock exactly
\* once when it finalizes.
C3_EmptyListLocksOnce ==
    \A p \in Runners :
        (benchmark_list[p] = <<>> /\ pc[p] = "done") => locks_taken[p] = 1

\* C3 amended: with an empty job list adb_run never takes the lock and runs
\* neither setup nor batch; it goes from the property read to the pull.
C3_EmptyListSkipsLock ==
    \A p \in Runners :
        benchmark_list[p] = <<>> =>
            /\ locks_taken[p] = 0
            /\ pc[p] \in {"rm_result", "getprop", "pull", "done", "raised"}
            /\ cmd[p] \in {"none", "rm_result", "getprop", "pull"}

\* C3 witness: a call with an empty job list has returned its path.
C3_Witness ==
    \E p \in Runners :
        benchmark_list[p] = <<>> /\ pc[p] = "done" /\ result[p] # "none"

\* C4: if no acquisition and no command of a runner fails (nothing is
\* raised), the runner eventually finalizes, for every max_time_per_lock >= 0.
C4_Terminates ==
    \A p \in Runners : ([](pc[p] # "raised")) => <>(pc[p] = "done")

\* C5: the jobs invoked so far are exactly the first i jobs of
\* benchmark_list, in list order, each once; at the end all were invoked.
C5_InOrder ==
    \A p \in Runners :
        /\ Len(invoked[p]) = i[p]
        /\ i[p] <= Len(benchmark_list[p])
        /\ \A k \in 1..Len(invoked[p]) : invoked[p][k] = benchmark_list[p][k]
        /\ pc[p] \in {"pull", "done"} => invoked[p] = benchmark_list[p]

\* C5 witness: a runner finished a list of several jobs over several holds.
C5_Witness ==
    \E p \in Runners :
        /\ pc[p] = "done" /\ Len(benchmark_list[p]) >= 2
        /\ locks_taken[p] >= 2

\* C6: a pipeline that has left the with block in any way (end of batch,
\* failed setup command, failed job, failed probe) does not hold the lock.
C6_ReleasedOnExit ==
    \A f \in LockPaths :
        lock[f] # NoProc =>
            (pc[lock[f]] \in InCS /\ device_lock_path(serialno[lock[f]]) = f)

\* C6 witness: a runner left the block by a failure and another pipeline
\* then took the lock of the same serial.
C6_Witness ==
    \E p \in Runners, q \in Procs :
        /\ p # q /\ serialno[p] = serialno[q]
        /\ pc[p] = "raised" /\ failure[p] \in {"setup", "job"}
        /\ locks_taken[q] > 0 /\ Holds(q)

\* C7: when a lock acquisition of adb_run ends in filelock.Timeout, the call
\* ends with that error without issuing any command in that turn, and from
\* then on it acquires nothing, invokes nothing, pulls nothing, returns nothing.
C7_TimeoutAborts ==
    [][\A p \in Runners :
         /\ (failure'[p] = "lock" /\ failure[p] # "lock") =>
               /\ pc'[p] = "raised" /\ error'[p] = "Timeout"
               /\ cmd'[p] = cmd[p] /\ cmd'[p] # "pull"
               /\ invoked'[p] = invoked[p]
               /\ locks_taken'[p] = locks_taken[p]
               /\ result'[p] = "none"
         /\ failure[p] = "lock" =>
               /\ failure'[p] = "lock" /\ pc'[p] = pc[p]
               /\ cmd'[p] = cmd[p] /\ invoked'[p] = invoked[p]
               /\ locks_taken'[p] = locks_taken[p]
               /\ result'[p] = "none"]_vars

\* C7 witness: a runner waited longer than the default timeout and was aborted.
C7_Witness ==
    \E p \in Runners :
        /\ failure[p] = "lock" /\ pc[p] = "raised"
        /\ waited[p] > DefaultTimeout

\* C8: every device command of a pipeline is issued while the pipeline holds
\* the lock of the serial.
C8_CommandsUnderLock ==
    \A p \in Procs : cmd[p] # "none" => cmd_locked[p]

\* C9: a failed job invocation leaves adb_run with the error: the lock is
\* released, no result path is returned and no later job is ever invoked.
C9_JobFailureAborts ==
    [][\A p \in Runners :
         failure'[p] = "job" =>
            /\ pc'[p] = "raised" /\ error'[p] = "ErrorReturnCode"
            /\ lock'[device_lock_path(serialno[p])] # p
            /\ result'[p] = "none"
            /\ failure[p] = "job" =>
                  (invoked'[p] = invoked[p] /\ locks_taken'[p] = locks_taken[p])
      ]_vars

\* C9 witness: a job failed while later jobs of the list were still pending.
C9_Witness ==
    \E p \in Runners :
        /\ failure[p] = "job" /\ pc[p] = "raised"
        /\ i[p] < Len(benchmark_list[p])

\* The path adb_run is to return for the device it was called with.
ExpectedPath(p) ==
    ProductModel(serialno[p]) \o "_" \o TargetSoc(serialno[p]) \o "_"
        \o abi[p] \o "_result.txt"

\* C10: a failed result pull does not fail adb_run, which still returns
\* <product_model>_<platform>_<abi>_result.txt.
C10_PullFailureAbsorbed ==
    \A p \in Runners :
        failure[p] = "pull" =>
            /\ pc[p] = "done" /\ error[p] = "none"
            /\ result[p] = ExpectedPath(p)

\* C10 witness: all jobs of a non-empty list ran and the pull then failed.
C10_Witness ==
    \E p \in Runners :
        /\ failure[p] = "pull" /\ pc[p] = "done"
        /\ i[p] = Len(benchmark_list[p]) /\ i[p] > 0

\* C11: when max_time_per_lock exceeds every elapsed time that is measured,
\* adb_run takes the lock exactly once, runs all jobs of a non-empty list in
\* that one hold and returns one result path (lists of up to EndToEndJobs).
C11_SingleHold ==
    \A p \in Runners :
        max_time_per_lock[p] > MaxElapse =>
            /\ locks_taken[p] <= 1
            /\ (pc[p] \in {"sleep", "pull", "done"}
                    /\ Len(benchmark_list[p]) >= 1) =>
                  /\ locks_taken[p] = 1
                  /\ jobs_in_hold[p] = Len(benchmark_list[p])
                  /\ invoked[p] = benchmark_list[p]
            /\ pc[p] = "done" => result[p] = ExpectedPath(p)

\* C11 witness: five jobs ran in one hold while time passed, path returned.
C11_Witness ==
    /\ pc[1] = "done" /\ result[1] # "none"
    /\ Len(benchmark_list[1]) = EndToEndJobs
    /\ max_time_per_lock[1] > MaxElapse
    /\ elapse_minutes[1] = MaxElapse
    /\ locks_taken[1] = 1 /\ jobs_in_hold[1] = EndToEndJobs

\* C15: pipelines on distinct serials never contend: a pipeline has waited
\* for a lock or timed out only if another pipeline of the SAME serial has
\* taken that lock; holds, timeouts and failures on other serials do not
\* reach it.
C15_NoCrossDeviceContention ==
    \A p \in Procs :
        (waited[p] > 0 \/ failure[p] = "lock" \/ error[p] = "Timeout") =>
            \E q \in Procs \ {p} :
                serialno[q] = serialno[p] /\ locks_taken[q] >= 1

\* C15 witness: a runner that is alone on its serial has run all its jobs
\* and returned, while a pipeline on another serial failed after taking
\* its lock.
C15_Witness ==
    \E p \in Runners, q \in Procs :
        /\ \A r \in Procs \ {p} : serialno[r] # serialno[p]
        /\ pc[p] = "done" /\ Len(benchmark_list[p]) >= 1
        /\ invoked[p] = benchmark_list[p]
        /\ serialno[q] # serialno[p]
        /\ pc[q] = "raised" /\ locks_taken[q] >= 1

\* C17: within a hold, a job after the first is started only while the
\* elapsed time measured after the previous job is below max_time_per_lock;
\* once the measured time has reached the budget, the next step of the
\* pipeline leaves the with block and releases the lock.
C17_BudgetBoundsBatch ==
    [][\A p \in Runners :
         /\ (invoked'[p] # invoked[p] /\ jobs_in_hold[p] >= 1) =>
               elapse_minutes[p] < max_time_per_lock[p]
         /\ (pc[p] = "batch" /\ jobs_in_hold[p] >= 1
                 /\ elapse_minutes[p] >= max_time_per_lock[p]
                 /\ <<pc[p], invoked[p]>>' # <<pc[p], invoked[p]>>) =>
               /\ pc'[p] = "sleep" /\ invoked'[p] = invoked[p]
               /\ lock'[device_lock_path(serialno[p])] # p]_vars

\* C17 witness: one runner ran a second job within its budget, another left
\* its hold with jobs pending because the budget was used up.
C17_Witness ==
    \E p, q \in Runners :
        /\ jobs_in_hold[p] >= 2
        /\ pc[q] = "sleep" /\ jobs_in_hold[q] >= 1
        /\ i[q] < Len(benchmark_list[q])
        /\ elapse_minutes[q] >= max_time_per_lock[q]

\* C18: a runner never sleeps while holding the lock; the with block is left
\* normally only into the sleep, and a lock hold after the first is only
\* entered from the sleep that followed the release.
C18_SleepBetweenHolds ==
    [][\A p \in Runners :
         /\ pc'[p] = "sleep" => lock'[device_lock_path(serialno[p])] # p
         /\ (pc[p] = "batch" /\ pc'[p] \notin {"batch", "raised"}) =>
               pc'[p] = "sleep"
         /\ (pc[p] # "lock" /\ pc'[p] = "lock") =>
               \/ pc[p] = "getprop" /\ locks_taken[p] = 0
               \/ pc[p] = "sleep" /\ locks_taken[p] >= 1]_vars

\* C18 witness: a runner is in its second hold, entered after a sleep.
C18_Witness ==
    \E p \in Runners : locks_taken[p] >= 2 /\ pc[p] \in InCS

\* C19: with pipelines contending for one serial, a runner with
\* max_time_per_lock > 0 whose acquisitions never time out and whose commands
\* never fail (nothing is raised) eventually finalizes.
C19_NoStarvation ==
    \A p \in Runners :
        max_time_per_lock[p] > 0 =>
            (([](pc[p] # "raised")) => <>(pc[p] = "done"))

\* C19 witness: two runners of the same serial both had to take the lock,
\* one of them had waited for the other, and both finalized.
C19_Witness ==
    \E p, q \in Runners :
        /\ p # q /\ serialno[p] = serialno[q]
        /\ max_time_per_lock[p] > 0 /\ max_time_per_lock[q] > 0
        /\ pc[p] = "done" /\ pc[q] = "done"
        /\ locks_taken[p] >= 2 /\ locks_taken[q] >= 1

\* The number a string of hexadecimal digits stands for.
RECURSIVE HexValue(_)
HexValue(ds) ==
    IF ds = <<>> THEN 0
    ELSE 16 * HexValue(SubSeq(ds, 1, Len(ds) - 1))
            + (CHOOSE v \in 0..15 : HexDigits[v + 1] = ds[Len(ds)])

\* Bit k (bit 0 = lowest) of the number n.
BitOf(n, k) == (n \div (2 ^ k)) % 2

\* C16: for a non-empty freq_list, get_cpu_mask returns hexadecimal digits
\* (no leading zero) of the number whose bit k is 1 exactly when core k has
\* the maximum frequency; [100,200,200,100] gives 6.
C16_CpuMask ==
    (cpu_mask # <<>> /\ freq_list # <<>>) =>
        /\ \A k \in 1..Len(cpu_mask) : cpu_mask[k] \in Range(HexDigits)
        /\ (Len(cpu_mask) > 1 => cpu_mask[1] # "0")
        /\ \A k \in 0..(Len(freq_list) - 1) :
              BitOf(HexValue(cpu_mask), k) = 1
                  <=> freq_list[k + 1] = MaxOf(freq_list)
        /\ HexValue(cpu_mask) < 2 ^ Len(freq_list)
        /\ (freq_list = <<100, 200, 200, 100>> => cpu_mask = <<"6">>)

\* C16 witness: the mask of [100,200,200,100] has been computed.
C16_Witness ==
    freq_list = <<100, 200, 200, 100>> /\ cpu_mask = <<"6">>

\* The call made a transfer (adb push was run).
Transferred(e) == e.outcome \in {"pushed", "push_raised"}

\* C12: after a completed adb_push_file call on a regular file, the next
\* call with the same source and destination makes no transfer, whatever
\* the remote file was before the first call.
C12_PushIdempotent ==
    \A k \in 2..Len(push_log) :
        (src_is_file /\ push_log[k - 1].outcome \in {"pushed", "skipped"}) =>
            ~Transferred(push_log[k])

\* C12 witness: the first call transferred the file, the second skipped it.
C12_Witness ==
    /\ Len(push_log) >= 2
    /\ push_log[1].outcome = "pushed" /\ push_log[2].outcome = "skipped"

\* C13 as stated: for a regular file the transfer is made exactly when the
\* remote md5sum fails or prints another checksum, and no md5sum failure
\* aborts adb_push_file.
C13_AnyFailureTransfers ==
    \A k \in 1..Len(push_log) :
        src_is_file =>
            /\ Transferred(push_log[k]) <=>
                  (push_log[k].status # 0 \/ push_log[k].seen # src_checksum)
            /\ push_log[k].outcome # "md5sum_raised"

\* C13 amended: for a regular file the transfer is made exactly when the
\* remote md5sum exits with status 1 or exits with 0 and prints another
\* checksum; a failure with any other status aborts the call, no transfer.
C13_StatusOneTransfers ==
    \A k \in 1..Len(push_log) :
        src_is_file =>
            /\ Transferred(push_log[k]) <=>
                  \/ push_log[k].status = 1
                  \/ push_log[k].status = 0
                        /\ push_log[k].seen # src_checksum
            /\ push_log[k].status \notin {0, 1} <=>
                  push_log[k].outcome = "md5sum_raised"
            /\ (push_log[k].status = 0 /\ push_log[k].seen = src_checksum) <=>
                  push_log[k].outcome = "skipped"

\* C13 witness: md5sum failed with a status above 1 and the call was aborted.
C13_Witness ==
    \E k \in 1..Len(push_log) :
        /\ src_is_file /\ push_log[k].status >= 2
        /\ push_log[k].outcome = "md5sum_raised"

\* C14: an artifact is added to the push list (get_model_file) or returned
\* for use (download_file) only when its local file has the expected
\* checksum; when the checksum differs after the fetch the call fails and
\* the artifact is neither added nor returned.
C14_VerifiedBeforeUse ==
    /\ (push_list # <<>> \/ returned # "none") =>
          (local_sum = expected_sum /\ fetch_error = "none")
    /\ fetch_error # "none" => (push_list = <<>> /\ returned = "none")
    /\ (fetch_error \in {"checksum not match", "exit(1)"}) =>
          local_sum # expected_sum

\* C14 witness: a stale local file was downloaded again, arrived corrupt,
\* and the call failed without adding or returning it.
C14_Witness ==
    /\ fetch_error \in {"checksum not match", "exit(1)"}
    /\ local_sum # Absent /\ local_sum # expected_sum
    /\ push_list = <<>> /\ returned = "none"

\* The catalog entry at benchmark b, model m passes the executor and model
\* name filters.
Selected(b, m) ==
    /\ catalog[b].executor \in executors
    /\ catalog[b].models[m].model_name \in model_names

\* The requested device types of an entry, in the entry's order.
Wanted(b, m) ==
    SelectSeq(catalog[b].models[m].devices, LAMBDA d : d \in device_types)

RECURSIVE Concat(_)
Concat(seqs) ==
    IF seqs = <<>> THEN <<>> ELSE Head(seqs) \o Concat(Tail(seqs))

\* Catalog positions <<b, m>> in catalog order.
Entries ==
    Concat([b \in 1..Len(catalog) |->
               [m \in 1..Len(catalog[b].models) |-> <<b, m>>]])

\* The entries that pass the filters and have a requested device type.
Staged ==
    SelectSeq(Entries,
              LAMBDA e : Selected(e[1], e[2]) /\ Wanted(e[1], e[2]) # <<>>)

JobsOf(e) ==
    [k \in 1..Len(Wanted(e[1], e[2])) |->
        [executor |-> catalog[e[1]].executor,
         model_name |-> catalog[e[1]].models[e[2]].model_name,
         device_type |-> Wanted(e[1], e[2])[k]]]

ExpectedJobs == Concat([k \in 1..Len(Staged) |-> JobsOf(Staged[k])])

ArtifactOf(e) == catalog[e[1]].models[e[2]].artifact

Occurrences(x, seq) == Cardinality({k \in 1..Len(seq) : seq[k] = x})

C21_ResultFileKept ==
    [][\A q \in Runners :
         (pc[q] = "rm_result" /\ cmd'[q] = "rm_result"
              /\ failure'[q] # "rm_result") =>
            \A p \in Runners \ {q} :
                (serialno[p] = serialno[q] /\ invoked[p] # <<>>) =>
                    pc[p] \in {"done", "raised"}
      ]_vars
====
